---- MODULE Spec2Model ----
(***************************************************************************)
(* A model of src-tauri/src/mic.rs: native microphone capture.             *)
(*                                                                         *)
(* Part I  (Spec, FairSpec, SeqSpec): the capture session controller.      *)
(*   start_mic_capture, stop_mic_capture and is_mic_capturing are run by   *)
(*   caller threads, one atomic access to MicState per step; every         *)
(*   start that passes its check spawns a worker that runs                 *)
(*   run_mic_capture_thread.  CaptureSpec adds the audio callbacks.        *)
(* Part II (VadSpec, ExampleSpec): the voice-activity engine               *)
(*   VadState::feed, one analysis frame per step.                          *)
(***************************************************************************)
EXTENDS Integers, Sequences, FiniteSets, TLC

\* ------------------------------------------------------------------------
\* Bounds of the controller model
\* ------------------------------------------------------------------------
\* caller threads that may be inside a command at the same time
NumCallers == 2
\* worker threads spawned in one run (std::thread::spawn calls)
MaxWorkers == 2
\* stop_mic_capture calls in one run
MaxStops == 2

Callers == 1..NumCallers
Workers == 1..MaxWorkers
\* Option<JoinHandle>: None
NoHandle == 0

VARIABLES
    is_capturing,    \* MicState.is_capturing (AtomicBool)
    stop_flag,       \* MicState.stop_flag (AtomicBool), shared by every worker
    thread_handle,   \* MicState.thread_handle: NoHandle or a worker
    th_lock,         \* owner of the thread_handle mutex: 0 or a caller
    pc,              \* caller -> position inside its command
    result,          \* caller -> what its last command returned
    handle,          \* caller -> local `handle` (spawned / taken JoinHandle)
    wpc,             \* worker -> position inside run_mic_capture_thread
    wfail,           \* worker -> the error it logged before returning
    nworkers,        \* threads spawned so far
    started_events,  \* "mic-capture-started" events emitted
    stopped_events,  \* "mic-capture-stopped" events emitted
    nstops,          \* stop_mic_capture calls begun
    start_ok,        \* history: worker -> its start call has returned Ok
    stop_pre,        \* history: caller -> workers whose start had returned
                     \*          Ok when this caller's stop call began
    stop_snap        \* history: caller -> MicState when its stop call began

ctlVars == <<is_capturing, stop_flag, thread_handle, th_lock, pc, result,
             handle, wpc, wfail, nworkers, started_events, stopped_events,
             nstops, start_ok, stop_pre, stop_snap>>

VARIABLES
    sample_rate,        \* VadState.sample_rate
    buffer,             \* VadState.buffer: samples not yet cut into a frame
    pre_speech_buffer,  \* VadState.pre_speech_buffer
    speech_buffer,      \* VadState.speech_buffer
    in_speech,          \* VadState.in_speech
    silence_count,      \* VadState.silence_count
    speech_count,       \* VadState.speech_count
    results,            \* the Vec<String> the running feed call will return
    nfeeds,             \* feed calls made
    nframes,            \* history: frames processed
    all_zero,           \* history: every sample fed so far is 0.0
    emitted,            \* history: segments handed to the host so far
    h_lead,             \* history: the lead-in of the latest speech onset
    h_since,            \* history: the frames since the latest onset
    h_kinds,            \* history: their classification, as runs
    h_emits,            \* history: segments emitted since the latest onset
    h_left,             \* history: the engine was Idle after one of them
    h_gap_in_speech,    \* history: in_speech after the latest speech frame
    h_stream,           \* history: every sample fed so far, in order
    h_idle,             \* history: every sample processed in the Idle branch
    h_on,               \* history: how the latest onset came about
    h_end,              \* history: how the latest utterance ended
    h_segs,             \* history: one record for each segment of `emitted`
    h_enc               \* history: calls of the encoder, and its errors

vadState == <<sample_rate, buffer, pre_speech_buffer, speech_buffer,
              in_speech, silence_count, speech_count>>
vadHistory == <<nframes, all_zero, emitted, h_lead, h_since, h_kinds,
                h_emits, h_left, h_gap_in_speech, h_stream, h_idle, h_on,
                h_end, h_segs, h_enc>>
vadVars == <<vadState, results, nfeeds, vadHistory>>

VARIABLES
    cb_fed,     \* worker -> callbacks of its stream that fed the engine
    h_stopped   \* history: the workers of sessions whose stop has returned

cbVars == <<cb_fed, h_stopped>>

\* ------------------------------------------------------------------------
\* MicState::default and worker bookkeeping
\* ------------------------------------------------------------------------
MicStateDefault ==
    /\ is_capturing = FALSE
    /\ stop_flag = FALSE
    /\ thread_handle = NoHandle
    /\ th_lock = 0

\* a spawned thread that has not returned from run_mic_capture_thread
Live(w) == wpc[w] \notin {"unborn", "exited"}
\* the worker holds a built cpal::Stream (from build_input_stream to its drop)
HoldsStream(w) == wpc[w] \in {"play", "poll"}
\* the stream was started by stream.play() and is capturing
Capturing(w) == wpc[w] = "poll"
LiveWorkers == {w \in Workers : Live(w)}

\* the MicState fields a caller can observe
MicStateNow == <<is_capturing, stop_flag, thread_handle>>
\* history taken when a stop call begins: MicState and the live workers
StopSnapshot == [state |-> MicStateNow, live |-> LiveWorkers]
\* stop_snap of a caller that is not inside stop_mic_capture
NoSnap == [state |-> <<>>, live |-> {}]

CtlInit ==
    /\ MicStateDefault
    /\ pc = [c \in Callers |-> "idle"]
    /\ result = [c \in Callers |-> "none"]
    /\ handle = [c \in Callers |-> NoHandle]
    /\ wpc = [w \in Workers |-> "unborn"]
    /\ wfail = [w \in Workers |-> "none"]
    /\ nworkers = 0
    /\ started_events = 0
    /\ stopped_events = 0
    /\ nstops = 0
    /\ start_ok = [w \in Workers |-> FALSE]
    /\ stop_pre = [c \in Callers |-> {}]
    /\ stop_snap = [c \in Callers |-> NoSnap]
    /\ cb_fed = [w \in Workers |-> 0]
    /\ h_stopped = {}

\* ------------------------------------------------------------------------
\* start_mic_capture
\* ------------------------------------------------------------------------
\* (mutant) the double-capture check is missing
AlreadyRunningUnchecked(flag) == FALSE

\* what the double-capture check answers for a value of is_capturing
AlreadyRunning(flag) == flag

\* l.79-81: load is_capturing; Err("Mic capture already running") if set
StartCheck(c) ==
    /\ pc[c] = "idle"
    /\ IF AlreadyRunning(is_capturing)
         THEN /\ result' = [result EXCEPT ![c] = "AlreadyCapturing"]
              /\ pc' = pc
         ELSE /\ pc' = [pc EXCEPT ![c] = "s_probe"]
              /\ result' = [result EXCEPT ![c] = "none"]
    /\ UNCHANGED <<is_capturing, stop_flag, thread_handle, th_lock, handle,
                   wpc, wfail, nworkers, started_events, stopped_events,
                   nstops, start_ok, stop_pre, stop_snap>>
    /\ UNCHANGED vadVars
    /\ UNCHANGED cbVars

\* start calls that have passed the probe and not yet spawned their thread
Spawning == {c \in Callers : pc[c] \in {"s_reset", "s_setcap", "s_spawn"}}

\* l.84-89: find_device and default_input_config on the caller's thread;
\* their outcome is the backend's, so it is an input of the step. (The
\* run's MaxWorkers threads are counted here, so that no call is ever held
\* at the spawn.)
StartProbe(c) ==
    /\ pc[c] = "s_probe"
    /\ \E outcome \in {"ok", "NoDevice", "ConfigError"} :
         IF outcome = "ok"
           THEN /\ nworkers + Cardinality(Spawning) < MaxWorkers
                /\ pc' = [pc EXCEPT ![c] = "s_reset"]
                /\ result' = result
           ELSE /\ pc' = [pc EXCEPT ![c] = "idle"]
                /\ result' = [result EXCEPT ![c] = outcome]
    /\ UNCHANGED <<is_capturing, stop_flag, thread_handle, th_lock, handle,
                   wpc, wfail, nworkers, started_events, stopped_events,
                   nstops, start_ok, stop_pre, stop_snap>>
    /\ UNCHANGED vadVars
    /\ UNCHANGED cbVars

\* (mutant) start_mic_capture leaves stop_flag as the last stop set it
StartStopFlagStale == stop_flag

\* the value start_mic_capture stores into stop_flag
StartStopFlagValue == FALSE

\* l.92: stop_flag.store(false)
StartResetStop(c) ==
    /\ pc[c] = "s_reset"
    /\ stop_flag' = StartStopFlagValue
    /\ pc' = [pc EXCEPT ![c] = "s_setcap"]
    /\ UNCHANGED <<is_capturing, thread_handle, th_lock, result, handle,
                   wpc, wfail, nworkers, started_events, stopped_events,
                   nstops, start_ok, stop_pre, stop_snap>>
    /\ UNCHANGED vadVars
    /\ UNCHANGED cbVars

\* l.93: is_capturing.store(true)
StartSetCapturing(c) ==
    /\ pc[c] = "s_setcap"
    /\ is_capturing' = TRUE
    /\ pc' = [pc EXCEPT ![c] = "s_spawn"]
    /\ UNCHANGED <<stop_flag, thread_handle, th_lock, result, handle,
                   wpc, wfail, nworkers, started_events, stopped_events,
                   nstops, start_ok, stop_pre, stop_snap>>
    /\ UNCHANGED vadVars
    /\ UNCHANGED cbVars

\* l.102-104: std::thread::spawn(run_mic_capture_thread)
StartSpawn(c) ==
    /\ pc[c] = "s_spawn"
    /\ nworkers' = nworkers + 1
    /\ wpc' = [wpc EXCEPT ![nworkers + 1] = "setup"]
    /\ handle' = [handle EXCEPT ![c] = nworkers + 1]
    /\ pc' = [pc EXCEPT ![c] = "s_store"]
    /\ UNCHANGED <<is_capturing, stop_flag, thread_handle, th_lock, result,
                   wfail, started_events, stopped_events, nstops, start_ok,
                   stop_pre, stop_snap>>
    /\ UNCHANGED vadVars
    /\ UNCHANGED cbVars

\* l.107-109: lock thread_handle, *th = Some(handle); the previous handle,
\* if any, is dropped, which detaches its thread
StartStoreHandle(c) ==
    /\ pc[c] = "s_store"
    /\ th_lock = 0
    /\ thread_handle' = handle[c]
    /\ pc' = [pc EXCEPT ![c] = "s_emit"]
    /\ UNCHANGED <<is_capturing, stop_flag, th_lock, result, handle,
                   wpc, wfail, nworkers, started_events, stopped_events,
                   nstops, start_ok, stop_pre, stop_snap>>
    /\ UNCHANGED vadVars
    /\ UNCHANGED cbVars

\* l.111-112: emit "mic-capture-started", return Ok(sample_rate)
StartReturn(c) ==
    /\ pc[c] = "s_emit"
    /\ started_events' = started_events + 1
    /\ result' = [result EXCEPT ![c] = "Ok"]
    /\ start_ok' = [start_ok EXCEPT ![handle[c]] = TRUE]
    /\ handle' = [handle EXCEPT ![c] = NoHandle]
    /\ pc' = [pc EXCEPT ![c] = "idle"]
    /\ UNCHANGED <<is_capturing, stop_flag, thread_handle, th_lock,
                   wpc, wfail, nworkers, stopped_events, nstops,
                   stop_pre, stop_snap>>
    /\ UNCHANGED vadVars
    /\ UNCHANGED cbVars

start_mic_capture(c) ==
    \/ StartCheck(c)
    \/ StartProbe(c)
    \/ StartResetStop(c)
    \/ StartSetCapturing(c)
    \/ StartSpawn(c)
    \/ StartStoreHandle(c)
    \/ StartReturn(c)

\* ------------------------------------------------------------------------
\* stop_mic_capture
\* ------------------------------------------------------------------------
\* l.120: stop_flag.store(true)
StopSetFlag(c) ==
    /\ pc[c] = "idle"
    /\ nstops < MaxStops
    /\ nstops' = nstops + 1
    /\ stop_flag' = TRUE
    /\ stop_pre' = [stop_pre EXCEPT ![c] = {w \in Workers : start_ok[w]}]
    /\ stop_snap' = [stop_snap EXCEPT ![c] = StopSnapshot]
    /\ result' = [result EXCEPT ![c] = "none"]
    /\ pc' = [pc EXCEPT ![c] = "t_clear"]
    /\ UNCHANGED <<is_capturing, thread_handle, th_lock, handle, wpc, wfail,
                   nworkers, started_events, stopped_events, start_ok>>
    /\ UNCHANGED vadVars
    /\ UNCHANGED cbVars

\* l.121: is_capturing.store(false)
StopClearCapturing(c) ==
    /\ pc[c] = "t_clear"
    /\ is_capturing' = FALSE
    /\ pc' = [pc EXCEPT ![c] = "t_take"]
    /\ UNCHANGED <<stop_flag, thread_handle, th_lock, result, handle, wpc,
                   wfail, nworkers, started_events, stopped_events, nstops,
                   start_ok, stop_pre, stop_snap>>
    /\ UNCHANGED vadVars
    /\ UNCHANGED cbVars

\* l.124-125: lock thread_handle and th.take(); the guard lives to l.128
StopTakeHandle(c) ==
    /\ pc[c] = "t_take"
    /\ th_lock = 0
    /\ th_lock' = c
    /\ handle' = [handle EXCEPT ![c] = thread_handle]
    /\ thread_handle' = NoHandle
    /\ pc' = [pc EXCEPT ![c] = "t_join"]
    /\ UNCHANGED <<is_capturing, stop_flag, result, wpc, wfail, nworkers,
                   started_events, stopped_events, nstops, start_ok,
                   stop_pre, stop_snap>>
    /\ UNCHANGED vadVars
    /\ UNCHANGED cbVars

\* JoinHandle::join returns once the thread has returned
Joinable(h) == IF h = NoHandle THEN TRUE ELSE wpc[h] = "exited"

\* l.125-128: handle.join() when a handle was taken, then the lock is released
StopJoin(c) ==
    /\ pc[c] = "t_join"
    /\ Joinable(handle[c])
    /\ th_lock' = 0
    /\ handle' = [handle EXCEPT ![c] = NoHandle]
    /\ pc' = [pc EXCEPT ![c] = "t_emit"]
    /\ UNCHANGED <<is_capturing, stop_flag, thread_handle, result, wpc,
                   wfail, nworkers, started_events, stopped_events, nstops,
                   start_ok, stop_pre, stop_snap>>
    /\ UNCHANGED vadVars
    /\ UNCHANGED cbVars

\* l.130-131: emit "mic-capture-stopped", return Ok(())
StopReturn(c) ==
    /\ pc[c] = "t_emit"
    /\ stopped_events' = stopped_events + 1
    /\ result' = [result EXCEPT ![c] = "StopOk"]
    /\ pc' = [pc EXCEPT ![c] = "idle"]
    /\ stop_pre' = [stop_pre EXCEPT ![c] = {}]
    /\ stop_snap' = [stop_snap EXCEPT ![c] = NoSnap]
    /\ h_stopped' = h_stopped \cup stop_pre[c]
    /\ UNCHANGED <<is_capturing, stop_flag, thread_handle, th_lock, handle,
                   wpc, wfail, nworkers, started_events, nstops, start_ok>>
    /\ UNCHANGED vadVars
    /\ UNCHANGED cb_fed

stop_mic_capture(c) ==
    \/ StopSetFlag(c)
    \/ StopClearCapturing(c)
    \/ StopTakeHandle(c)
    \/ StopJoin(c)
    \/ StopReturn(c)

\* ------------------------------------------------------------------------
\* is_mic_capturing
\* ------------------------------------------------------------------------
\* l.136-139: Ok(is_capturing.load())
is_mic_capturing(c) ==
    /\ pc[c] = "idle"
    /\ result' = [result EXCEPT ![c] = IF is_capturing THEN "true" ELSE "false"]
    /\ UNCHANGED <<is_capturing, stop_flag, thread_handle, th_lock, pc,
                   handle, wpc, wfail, nworkers, started_events,
                   stopped_events, nstops, start_ok, stop_pre, stop_snap>>
    /\ UNCHANGED vadVars
    /\ UNCHANGED cbVars

\* ------------------------------------------------------------------------
\* run_mic_capture_thread
\* ------------------------------------------------------------------------
\* one fallible setup step of the worker: on error it logs and returns
WorkerSetup(w, at, next, errs) ==
    /\ wpc[w] = at
    /\ \E outcome \in {"ok"} \cup errs :
         IF outcome = "ok"
           THEN /\ wpc' = [wpc EXCEPT ![w] = next]
                /\ wfail' = wfail
           ELSE /\ wpc' = [wpc EXCEPT ![w] = "exited"]
                /\ wfail' = [wfail EXCEPT ![w] = outcome]
    /\ UNCHANGED <<is_capturing, stop_flag, thread_handle, th_lock, pc,
                   result, handle, nworkers, started_events, stopped_events,
                   nstops, start_ok, stop_pre, stop_snap>>
    /\ UNCHANGED vadVars
    /\ UNCHANGED cbVars

\* l.166-214: find_device, default_input_config, the sample-format match and
\* build_input_stream. The four touch nothing another thread can see, so
\* they are one step; the first error is logged and the thread returns.
WorkerBuildStream(w) ==
    WorkerSetup(w, "setup", "play",
                {"NoDevice", "ConfigError", "UnsupportedFormat", "BuildError"})
\* l.216-219: stream.play()
WorkerPlay(w) == WorkerSetup(w, "play", "poll", {"StartError"})

\* what one poll of the loop condition sees
PollSeesStop == stop_flag

\* l.223-228: while !stop_flag.load() { sleep(50ms) }; drop(stream).
\* A poll that sees the flag clear sleeps and changes nothing.
WorkerPoll(w) ==
    /\ wpc[w] = "poll"
    /\ PollSeesStop
    /\ wpc' = [wpc EXCEPT ![w] = "exited"]
    /\ UNCHANGED <<is_capturing, stop_flag, thread_handle, th_lock, pc,
                   result, handle, wfail, nworkers, started_events,
                   stopped_events, nstops, start_ok, stop_pre, stop_snap>>
    /\ UNCHANGED vadVars
    /\ UNCHANGED cbVars

run_mic_capture_thread(w) ==
    \/ WorkerBuildStream(w)
    \/ WorkerPlay(w)
    \/ WorkerPoll(w)

\* ------------------------------------------------------------------------
\* the data callback of build_input_stream
\* ------------------------------------------------------------------------
\* callbacks of one stream that get past the guard, in one run
MaxCallbacks == 1

\* l.357: stop_flag.load(Ordering::Relaxed)
CallbackSeesStop == stop_flag

\* l.356-385: the backend calls the closure while the stream is playing,
\* that is from stream.play() to the drop of the stream, which does not
\* return while a callback is running: towards the worker a callback is one
\* step.  With the flag set it returns at once (l.357-359); otherwise it
\* downmixes, feeds the session's engine and emits what feed returns
\* (l.362-384).
audio_callback(w) ==
    /\ Capturing(w)
    /\ cb_fed[w] < MaxCallbacks
    /\ IF CallbackSeesStop
         THEN UNCHANGED cb_fed
         ELSE cb_fed' = [cb_fed EXCEPT ![w] = @ + 1]
    /\ UNCHANGED h_stopped
    /\ UNCHANGED ctlVars
    /\ UNCHANGED vadVars

\* ========================================================================
\* Part II: VadState
\* ========================================================================
\* A sample is an integer number of thousandths (20 is 0.020); the f32
\* arithmetic of the source is done exactly.  A Vec<f32> is kept as the
\* sequence of its runs <<value, length>> of equal samples, adjacent runs
\* holding different values, so that a buffer of hop_size * 40 zeros is one
\* run and the constants keep the values the source gives them.

\* l.251: hop_size
hop_size == 1024
\* l.261: rms_threshold, in thousandths
rms_threshold == 15
\* l.262: peak_threshold, in thousandths
peak_threshold == 40
\* l.263
silence_chunks_needed == 40
\* l.264
min_speech_chunks == 5
\* l.265: pre_speech_samples = hop_size * 10
pre_speech_samples == hop_size * 10
\* l.297: max_samples = sample_rate * 30
max_samples(rate) == rate * 30
\* (mutant) a tenth of the rate too many
keep_samples_long(rate) == (rate * 15) \div 10
\* l.313: keep = sample_rate * 15 / 100
keep_samples(rate) == (rate * 15) \div 100

\* ---- Vec<f32> as runs ---------------------------------------------------
RECURSIVE RLen(_)
\* Vec::len
RLen(v) == IF v = <<>> THEN 0 ELSE Head(v)[2] + RLen(Tail(v))

\* Vec::extend_from_slice
RCat(a, b) ==
    IF a = <<>> THEN b
    ELSE IF b = <<>> THEN a
    ELSE IF a[Len(a)][1] = b[1][1]
      THEN SubSeq(a, 1, Len(a) - 1)
             \o <<<<b[1][1], a[Len(a)][2] + b[1][2]>>>> \o Tail(b)
      ELSE a \o b

RECURSIVE RTake(_, _)
\* the first n samples: Vec::truncate(n), and the head drain(..n) yields
RTake(v, n) ==
    IF n <= 0 \/ v = <<>> THEN <<>>
    ELSE IF Head(v)[2] >= n THEN <<<<Head(v)[1], n>>>>
    ELSE <<Head(v)>> \o RTake(Tail(v), n - Head(v)[2])

RECURSIVE RDrop(_, _)
\* what is left after the first n samples: Vec::drain(..n)
RDrop(v, n) ==
    IF n <= 0 \/ v = <<>> THEN v
    ELSE IF Head(v)[2] > n THEN <<<<Head(v)[1], Head(v)[2] - n>>>> \o Tail(v)
    ELSE RDrop(Tail(v), n - Head(v)[2])

\* one run of n samples of value x (nothing when n = 0)
Run(x, n) == IF n = 0 THEN <<>> ELSE <<<<x, n>>>>

Abs(x) == IF x < 0 THEN -x ELSE x
Max(x, y) == IF x >= y THEN x ELSE y

RECURSIVE SumSq(_)
\* l.276-282: sumsq += v * v over the frame, in millionths
SumSq(v) ==
    IF v = <<>> THEN 0
    ELSE Head(v)[1] * Head(v)[1] * Head(v)[2] + SumSq(Tail(v))

RECURSIVE Peak(_)
\* l.277-280: peak = peak.max(v.abs()) over the frame
Peak(v) == IF v = <<>> THEN 0 ELSE Max(Abs(Head(v)[1]), Peak(Tail(v)))

\* (mutant) the comparisons of the classification are the wrong way round
IsSpeechInverted(chunk) ==
    \/ SumSq(chunk) < rms_threshold * rms_threshold * RLen(chunk)
    \/ Peak(chunk) < peak_threshold

\* l.283-284: rms = sqrt(sumsq / len); rms > rms_threshold || peak >
\* peak_threshold.  sqrt(s / n) > t is s > t * t * n for t >= 0.
IsSpeech(chunk) ==
    \/ SumSq(chunk) > rms_threshold * rms_threshold * RLen(chunk)
    \/ Peak(chunk) > peak_threshold

\* ---- samples_to_wav_b64 -------------------------------------------------
\* l.414-415: clamp to [-1.0, 1.0], scale by i16::MAX, `as i16` truncates
\* toward zero
ToI16(x) ==
    LET clamped == IF x < -1000 THEN -1000 ELSE IF x > 1000 THEN 1000 ELSE x
        scaled == (Abs(clamped) * 32767) \div 1000
    IN  IF clamped < 0 THEN -scaled ELSE scaled

RECURSIVE Quantize(_)
\* l.413-417: the samples written to the WAV container
Quantize(v) ==
    IF v = <<>> THEN <<>>
    ELSE RCat(Run(ToI16(Head(v)[1]), Head(v)[2]), Quantize(Tail(v)))

\* l.398-421: Err("Empty audio buffer") for no samples, else the clip: a
\* mono 16-bit PCM container at the given rate.  The container's bytes and
\* their base64 text are kept as the fields they encode.
samples_to_wav_b64(rate, mono_f32) ==
    IF RLen(mono_f32) = 0
      THEN [ok |-> FALSE, err |-> "EmptyInput"]
      ELSE [ok |-> TRUE,
            clip |-> [channels |-> 1, sample_rate |-> rate,
                      bits_per_sample |-> 16, samples |-> Quantize(mono_f32)]]

\* l.299-301, l.318-320: the result is pushed if Ok, and dropped if not
PushEncoded(rs, rate, buf) ==
    LET r == samples_to_wav_b64(rate, buf)
    IN  IF r.ok THEN Append(rs, r.clip) ELSE rs

\* ---- bounds and inputs of the engine model ------------------------------
\* feed calls in one run
MaxFeeds == 3
\* the rates VadState::new is given: a low one, whose 30 s cap is 29.3
\* frames, and a usual one
SampleRates == {1000, 8000}
\* sample values, in thousandths: silence, speech by its RMS, and a
\* background level below both thresholds
Zero == 0
Loud == 20
Quiet == 5
\* a short utterance with the silence that closes it
Utterance(n) ==
    RCat(Run(Loud, hop_size * n), Run(Zero, hop_size * silence_chunks_needed))
\* what one feed call is given: a slice of equal samples, or an utterance
\* of one frame fewer than min_speech_chunks, or of just as many
FeedChunks ==
    {Run(Zero, hop_size \div 2), Run(Zero, hop_size),
     Run(Zero, hop_size * (silence_chunks_needed - 1)),
     Run(Zero, hop_size * silence_chunks_needed),
     Run(Loud, hop_size), Run(Loud, hop_size * 30),
     Run(Quiet, hop_size),
     Utterance(min_speech_chunks - 1), Utterance(min_speech_chunks)}

\* l.250-267: VadState::new
VadNew(rate) ==
    /\ sample_rate = rate
    /\ buffer = <<>>
    /\ pre_speech_buffer = <<>>
    /\ speech_buffer = <<>>
    /\ in_speech = FALSE
    /\ silence_count = 0
    /\ speech_count = 0

VadHistoryInit ==
    /\ results = <<>>
    /\ nfeeds = 0
    /\ nframes = 0
    /\ all_zero = TRUE
    /\ emitted = <<>>
    /\ h_lead = <<>>
    /\ h_since = <<>>
    /\ h_kinds = <<>>
    /\ h_emits = 0
    /\ h_left = FALSE
    /\ h_gap_in_speech = FALSE
    /\ h_stream = <<>>
    /\ h_idle = <<>>
    /\ h_on = [after_cap |-> FALSE, before |-> <<>>]
    /\ h_end = [via |-> "none", speech |-> 0, emits |-> 0, at |-> 0]
    /\ h_segs = <<>>
    /\ h_enc = [calls |-> 0, errs |-> 0]

\* (mutant) the slice replaces the carry instead of following it
ExtendDroppingCarry(buf, slice) == slice

\* l.271: self.buffer.extend_from_slice(mono_samples)
Extend(buf, slice) == RCat(buf, slice)

\* l.270-271: the slice joins the carry buffer, with a fresh
\* `results`.  The while loop of l.273 is the ProcessFrame steps that
\* follow; the call has returned when fewer than hop_size samples are left.
FeedCall(chunk) ==
    /\ nfeeds < MaxFeeds
    /\ RLen(buffer) < hop_size
    /\ nfeeds' = nfeeds + 1
    /\ buffer' = Extend(buffer, chunk)
    /\ results' = <<>>
    /\ all_zero' = (all_zero /\ \A i \in 1..Len(chunk) : chunk[i][1] = 0)
    /\ h_stream' = RCat(h_stream, chunk)
    /\ UNCHANGED <<sample_rate, pre_speech_buffer, speech_buffer, in_speech,
                   silence_count, speech_count, nframes, emitted, h_lead,
                   h_since, h_kinds, h_emits, h_left, h_gap_in_speech,
                   h_idle, h_on, h_end, h_segs, h_enc>>
    /\ UNCHANGED ctlVars
    /\ UNCHANGED cbVars

\* (mutant) a speech frame leaves the silence counter as it is
SilenceAfterSpeechKept(count) == count

\* l.295: self.silence_count = 0
SilenceAfterSpeech(count) == 0

\* (mutant) the utterance closes one frame late
SilenceClosedLate(count) == count > silence_chunks_needed

\* l.310: self.silence_count >= self.silence_chunks_needed
SilenceClosed(count) == count >= silence_chunks_needed

\* l.298: self.speech_buffer.len() > max_samples
OverCap(buf) == RLen(buf) > max_samples(sample_rate)

\* (mutant) the whole buffer is cut away
TrimTailAll(buf, count) == RTake(buf, 0)

\* l.312-317: the buffer cut down to the retained tail of silence
TrimTail(buf, count) ==
    LET silence_samples == count * hop_size
        keep == keep_samples(sample_rate)
        trim == Max(silence_samples - keep, 0)
    IN  IF RLen(buf) > trim THEN RTake(buf, RLen(buf) - trim) ELSE buf

\* (mutant) an utterance one speech frame short is accepted
AcceptedOneShort(count, buf) ==
    count >= min_speech_chunks - 1 /\ buf # <<>>

\* l.311: speech_count >= min_speech_chunks && !speech_buffer.is_empty()
Accepted(count, buf) == count >= min_speech_chunks /\ buf # <<>>

\* (mutant) a forced emission leaves the speech counter as it is
SpeechCountAfterCapKept(count) == count

\* l.304: self.speech_count = 0
SpeechCountAfterCap(count) == 0

\* (mutant) the newest samples are dropped, not the oldest
EvictNewest(pre) == RTake(pre, pre_speech_samples)

\* l.329-332: the excess over pre_speech_samples is drained from the front
Evict(pre) ==
    IF RLen(pre) > pre_speech_samples
      THEN RDrop(pre, RLen(pre) - pre_speech_samples)
      ELSE pre

\* the last n samples of v
RLast(v, n) == RDrop(v, Max(RLen(v) - n, 0))

RECURSIVE FramesOf(_, _)
\* the number of frames of h_kinds classified k
FramesOf(kinds, k) ==
    IF kinds = <<>> THEN 0
    ELSE (IF Head(kinds)[1] = k THEN Head(kinds)[2] ELSE 0)
           + FramesOf(Tail(kinds), k)

\* the frames of h_kinds from the onset up to the last speech frame
SpanOf(kinds) ==
    FramesOf(kinds, TRUE) + FramesOf(kinds, FALSE)
      - (IF kinds # <<>> /\ kinds[Len(kinds)][1] = FALSE
           THEN kinds[Len(kinds)][2] ELSE 0)

\* appends one classification to the runs of h_kinds
KindsAfter(kinds, k) ==
    IF kinds # <<>> /\ kinds[Len(kinds)][1] = k
      THEN [kinds EXCEPT ![Len(kinds)] = <<k, kinds[Len(kinds)][2] + 1>>]
      ELSE Append(kinds, <<k, 1>>)

\* l.273-334: one iteration of the while loop of feed
ProcessFrame ==
    /\ RLen(buffer) >= hop_size
    /\ LET chunk == RTake(buffer, hop_size)
           is_speech == IsSpeech(chunk)
           onset == is_speech /\ ~in_speech
           \* l.286-305
           sb_start == IF in_speech THEN speech_buffer ELSE pre_speech_buffer
           sc_speech == (IF in_speech THEN speech_count ELSE 0) + 1
           sb_speech == RCat(sb_start, chunk)
           capped == OverCap(sb_speech)
           \* l.306-326
           sil == silence_count + 1
           sb_silence == RCat(speech_buffer, chunk)
           closed == SilenceClosed(sil)
           accepted == Accepted(speech_count, sb_silence)
           \* l.327-333
           pre == RCat(pre_speech_buffer, chunk)
           rs == IF is_speech
                   THEN IF capped
                          THEN PushEncoded(results, sample_rate, sb_speech)
                          ELSE results
                   ELSE IF in_speech /\ closed /\ accepted
                          THEN PushEncoded(results, sample_rate,
                                           TrimTail(sb_silence, sil))
                          ELSE results
           n_new == Len(rs) - Len(results)
           \* history
           cap_end == is_speech /\ capped
           close_end == ~is_speech /\ in_speech /\ closed
           encoding == cap_end \/ (close_end /\ accepted)
           pcm == IF is_speech THEN sb_speech
                  ELSE TrimTail(sb_silence, sil)
           kinds == IF onset THEN <<<<TRUE, 1>>>>
                    ELSE IF h_kinds # <<>>
                      THEN KindsAfter(h_kinds, is_speech)
                    ELSE h_kinds
           lead == IF onset THEN pre_speech_buffer ELSE h_lead
           on == IF onset
                   THEN [after_cap |-> h_end.via = "cap"
                                         /\ h_end.at = nframes,
                         before |-> RLast(RTake(h_stream,
                                                nframes * hop_size),
                                          pre_speech_samples)]
                   ELSE h_on
           end == [via |-> IF cap_end THEN "cap" ELSE "close",
                   speech |-> FramesOf(kinds, TRUE),
                   emits |-> n_new,
                   at |-> nframes + 1]
       IN  /\ buffer' = RDrop(buffer, hop_size)
           /\ results' = rs
           /\ IF is_speech
                THEN /\ silence_count' = SilenceAfterSpeech(silence_count)
                     /\ pre_speech_buffer' = pre_speech_buffer
                     /\ IF capped
                          THEN /\ speech_buffer' = <<>>
                               /\ in_speech' = FALSE
                               /\ speech_count' =
                                      SpeechCountAfterCap(sc_speech)
                          ELSE /\ speech_buffer' = sb_speech
                               /\ in_speech' = TRUE
                               /\ speech_count' = sc_speech
                ELSE IF in_speech
                  THEN /\ pre_speech_buffer' = pre_speech_buffer
                       /\ IF closed
                            THEN /\ speech_buffer' = <<>>
                                 /\ in_speech' = FALSE
                                 /\ silence_count' = 0
                                 /\ speech_count' = 0
                            ELSE /\ speech_buffer' = sb_silence
                                 /\ in_speech' = TRUE
                                 /\ silence_count' = sil
                                 /\ speech_count' = speech_count
                  ELSE /\ pre_speech_buffer' = Evict(pre)
                       /\ UNCHANGED <<speech_buffer, in_speech,
                                      silence_count, speech_count>>
           \* history
           /\ nframes' = nframes + 1
           /\ emitted' = emitted \o SubSeq(rs, Len(results) + 1, Len(rs))
           /\ h_lead' = IF onset THEN pre_speech_buffer ELSE h_lead
           /\ h_since' = IF onset THEN chunk
                         ELSE IF h_kinds # <<>> THEN RCat(h_since, chunk)
                         ELSE h_since
           /\ h_kinds' = kinds
           /\ h_emits' = (IF onset THEN 0 ELSE h_emits) + n_new
           /\ h_left' = ((~onset /\ h_left) \/ ~in_speech')
           /\ h_gap_in_speech' = IF is_speech THEN in_speech'
                                 ELSE h_gap_in_speech
           /\ h_idle' = IF ~is_speech /\ ~in_speech
                           THEN RCat(h_idle, chunk) ELSE h_idle
           /\ h_on' = on
           /\ h_end' = IF cap_end \/ close_end THEN end ELSE h_end
           /\ h_segs' = IF n_new > 0
                           THEN Append(h_segs,
                                       [via |-> end.via,
                                        speech |-> end.speech,
                                        span |-> SpanOf(kinds),
                                        lead |-> lead,
                                        before |-> on.before,
                                        after_cap |-> on.after_cap,
                                        pcm |-> pcm])
                           ELSE h_segs
           /\ h_enc' = [calls |-> h_enc.calls + (IF encoding THEN 1 ELSE 0),
                        errs |-> h_enc.errs
                                   + (IF encoding /\ n_new = 0 THEN 1 ELSE 0)]
    /\ UNCHANGED <<sample_rate, nfeeds, all_zero, h_stream>>
    /\ UNCHANGED ctlVars
    /\ UNCHANGED cbVars

\* ---- feed as a function --------------------------------------------------
\* VadState as a record, with the results of the call in `out`
VadRecord(rate, samples) ==
    [buffer |-> samples, pre_speech_buffer |-> <<>>, speech_buffer |-> <<>>,
     in_speech |-> FALSE, silence_count |-> 0, speech_count |-> 0,
     out |-> <<>>]

\* l.274-333: the body of the loop, on a state with a whole frame buffered
FrameOf(st) ==
    LET chunk == RTake(st.buffer, hop_size)
        rest == [st EXCEPT !.buffer = RDrop(st.buffer, hop_size)]
        sb_speech == RCat(IF st.in_speech THEN st.speech_buffer
                          ELSE st.pre_speech_buffer, chunk)
        sc_speech == (IF st.in_speech THEN st.speech_count ELSE 0) + 1
        sil == st.silence_count + 1
        sb_silence == RCat(st.speech_buffer, chunk)
        idle == [rest EXCEPT !.speech_buffer = <<>>, !.in_speech = FALSE,
                             !.silence_count = 0, !.speech_count = 0]
    IN  IF IsSpeech(chunk)
          THEN IF OverCap(sb_speech)
                 THEN [rest EXCEPT
                         !.out = PushEncoded(@, sample_rate, sb_speech),
                         !.speech_buffer = <<>>,
                         !.in_speech = FALSE,
                         !.speech_count = SpeechCountAfterCap(sc_speech),
                         !.silence_count = SilenceAfterSpeech(@)]
                 ELSE [rest EXCEPT
                         !.speech_buffer = sb_speech,
                         !.in_speech = TRUE,
                         !.speech_count = sc_speech,
                         !.silence_count = SilenceAfterSpeech(@)]
        ELSE IF st.in_speech
          THEN IF SilenceClosed(sil)
                 THEN IF Accepted(st.speech_count, sb_silence)
                        THEN [idle EXCEPT
                                !.out = PushEncoded(@, sample_rate,
                                            TrimTail(sb_silence, sil))]
                        ELSE idle
                 ELSE [rest EXCEPT !.speech_buffer = sb_silence,
                                   !.silence_count = sil]
        ELSE [rest EXCEPT
                !.pre_speech_buffer = Evict(RCat(@, chunk))]

RECURSIVE Drain(_)
\* l.273: while self.buffer.len() >= self.hop_size
Drain(st) ==
    IF RLen(st.buffer) >= hop_size THEN Drain(FrameOf(st)) ELSE st

\* l.269-337: one call of feed on a state st, given `slice`
FeedOnce(st, slice) ==
    Drain([st EXCEPT !.buffer = Extend(@, slice), !.out = <<>>])

\* no engine has been built: the controller's specifications leave it so
NoEngine == VadNew(0) /\ VadHistoryInit

vars == <<ctlVars, vadVars, cbVars>>

CallerStep(c) ==
    \/ start_mic_capture(c)
    \/ stop_mic_capture(c)
    \/ is_mic_capturing(c)

Init == CtlInit /\ NoEngine

Next ==
    \/ \E c \in Callers : CallerStep(c)
    \/ \E w \in Workers : run_mic_capture_thread(w)

Spec == Init /\ [][Next]_vars

\* The steps that continue a command already begun (everything but the
\* three invocations StartCheck, StopSetFlag and is_mic_capturing).
CallProgress(c) ==
    \/ StartProbe(c)
    \/ StartResetStop(c)
    \/ StartSetCapturing(c)
    \/ StartSpawn(c)
    \/ StartStoreHandle(c)
    \/ StartReturn(c)
    \/ StopClearCapturing(c)
    \/ StopTakeHandle(c)
    \/ StopJoin(c)
    \/ StopReturn(c)

\* Fair scheduling of the threads: a worker that can step does, and so does
\* a caller inside a command.  Nothing obliges the host to issue a command.
FairSpec ==
    /\ Spec
    /\ \A w \in Workers : WF_vars(run_mic_capture_thread(w))
    /\ \A c \in Callers : WF_vars(CallProgress(c))

\* One caller thread: the commands are issued one after the other, each
\* begun after the one before has returned; the workers run concurrently.
SeqCaller == 1

SeqNext ==
    \/ CallerStep(SeqCaller)
    \/ \E w \in Workers : run_mic_capture_thread(w)

SeqSpec == Init /\ [][SeqNext]_vars

\* The controller with the audio callbacks of its streams.
CaptureNext ==
    \/ Next
    \/ \E w \in Workers : audio_callback(w)

CaptureSpec == Init /\ [][CaptureNext]_vars

\* The segmentation engine on its own: one VadState, built for either rate,
\* fed slice after slice as the stream callback does (l.379-380).
VadInit ==
    /\ CtlInit
    /\ \E rate \in SampleRates : VadNew(rate)
    /\ VadHistoryInit

VadNext ==
    \/ \E chunk \in FeedChunks : FeedCall(chunk)
    \/ ProcessFrame

VadSpec == VadInit /\ [][VadNext]_vars

\* The engine fed, besides, the worked example: 50 frames of silence, 20
\* speech frames, 45 frames of silence, one feed call each.
ExampleInput ==
    <<Run(Zero, hop_size * 50), Run(Loud, hop_size * 20),
      Run(Zero, hop_size * 45)>>

RECURSIVE ExampleFed(_)
\* the first n slices of the example, as one stream
ExampleFed(n) ==
    IF n = 0 THEN <<>> ELSE RCat(ExampleFed(n - 1), ExampleInput[n])

ExampleFeed ==
    /\ nfeeds < Len(ExampleInput)
    /\ h_stream = ExampleFed(nfeeds)
    /\ FeedCall(ExampleInput[nfeeds + 1])

ExampleNext ==
    \/ VadNext
    \/ ExampleFeed

ExampleSpec == VadInit /\ [][ExampleNext]_vars

StopPcs == {"t_clear", "t_take", "t_join", "t_emit"}
Quiescent == \A c \in Callers : pc[c] = "idle"

\* ------------------------------------------------------------------------
\* Claims about the controller
\* ------------------------------------------------------------------------

\* C1: under every interleaving of the three commands, at most one capture
\* worker (a spawned thread that has not yet returned) exists at any time.
C1_AtMostOneWorker == Cardinality(LiveWorkers) <= 1

\* C2: when stop_mic_capture is about to return (its join is over), every
\* worker spawned by a start_mic_capture that had returned before the stop
\* began has dropped its stream and exited.
C2_StopReturnsAfterRelease ==
    \A c \in Callers :
        pc[c] = "t_emit" => \A w \in stop_pre[c] : wpc[w] = "exited"

\* C3: every stop_mic_capture call eventually returns, the workers and the
\* callers inside a command being scheduled fairly.
C3_StopReturns ==
    \A c \in Callers : (pc[c] \in StopPcs) ~> (pc[c] = "idle")

\* C4: a start_mic_capture issued while a session is capturing (the flag is
\* set or a worker is alive) fails with the already-capturing error and
\* leaves the flags, the stored handle, the workers and the events as they
\* were: nothing is spawned and no capture-started event is emitted.
C4_RejectedStartChangesNothing ==
    [][\A c \in Callers :
          (StartCheck(c) /\ (is_capturing \/ LiveWorkers # {}))
             => /\ result'[c] = "AlreadyCapturing"
                /\ pc'[c] = "idle"
                /\ UNCHANGED <<is_capturing, stop_flag, thread_handle,
                               th_lock, wpc, wfail, nworkers,
                               started_events, stopped_events>>]_vars

\* C4 witness: a start was rejected while a worker owns a started stream
C4_Witness ==
    \E c \in Callers :
        /\ result[c] = "AlreadyCapturing"
        /\ is_capturing
        /\ \E w \in Workers : Capturing(w) /\ thread_handle = w

\* C5: a worker whose setup failed (device, configuration, sample format,
\* stream construction or stream start) belongs to a start_mic_capture call
\* that did not return success.
C5_SetupFailureReturned ==
    \A w \in Workers :
        (wpc[w] = "exited" /\ wfail[w] # "none") => ~start_ok[w]

\* C6: when no command is in progress, the capturing flag is set exactly
\* when a worker is alive (setting up or owning the stream).
C6_FlagIffSession ==
    Quiescent => (is_capturing <=> LiveWorkers # {})

\* C7: stop_mic_capture called when no session is active (no worker alive)
\* does not block at the join and leaves capturing flag false, cancellation
\* flag set and no handle stored, however often it is repeated; after it
\* start_mic_capture passes its check, and while the caller is not inside a
\* stop the cancellation flag of a live worker is clear.
C7_StopIdempotent ==
    \A c \in Callers :
        /\ (pc[c] = "t_join" /\ stop_snap[c].live = {})
              => Joinable(handle[c])
        /\ (pc[c] = "t_emit" /\ stop_snap[c].live = {})
              => MicStateNow = <<FALSE, TRUE, NoHandle>>
        /\ (Quiescent /\ result[c] = "StopOk") => ~is_capturing
        /\ ((\A d \in Callers : pc[d] \notin StopPcs) /\ LiveWorkers # {})
              => ~stop_flag

\* C7 witness: a stop that began in the state an earlier stop left (no
\* session, flag false, cancellation set, no handle) is about to return, and
\* a start had succeeded before
C7_Witness ==
    \E c \in Callers :
        /\ pc[c] = "t_emit"
        /\ stop_snap[c].live = {}
        /\ stop_snap[c].state = <<FALSE, TRUE, NoHandle>>
        /\ nstops >= 2

\* ------------------------------------------------------------------------
\* Claims about the segmentation engine
\* ------------------------------------------------------------------------

\* the frames classified since the latest onset end in this many
\* consecutive non-speech frames
TrailingSilence ==
    IF h_kinds # <<>> /\ h_kinds[Len(h_kinds)][1] = FALSE
      THEN h_kinds[Len(h_kinds)][2]
      ELSE 0

\* every run of non-speech frames since the latest onset is shorter than
\* silence_chunks_needed
GapsShort ==
    \A i \in 1..Len(h_kinds) :
        h_kinds[i][1] = FALSE => h_kinds[i][2] < silence_chunks_needed

\* C8: while every sample fed so far is zero, feed has emitted no segment
\* (neither in the current call nor in an earlier one) and the engine is
\* Idle, with nothing in its speech buffer.
C8_SilenceNeverEmits ==
    all_zero =>
        /\ emitted = <<>>
        /\ results = <<>>
        /\ ~in_speech
        /\ speech_buffer = <<>>
        /\ speech_count = 0

C8_Witness ==
    /\ all_zero
    /\ nframes >= 2 * silence_chunks_needed
    /\ RLen(pre_speech_buffer) = pre_speech_samples
    /\ emitted = <<>>

\* C9 (as stated): once an onset has been followed by a gap, and as long as
\* every gap since that onset is shorter than silence_chunks_needed frames,
\* the engine has stayed in Speech, has emitted nothing, and its speech
\* buffer holds the lead-in and every frame since the onset.
C9_OneUtterance_AsStated ==
    (Len(h_kinds) >= 2 /\ GapsShort) =>
        /\ in_speech
        /\ ~h_left
        /\ h_emits = 0
        /\ speech_buffer = RCat(h_lead, h_since)

\* C9 (amended): the same, for an utterance that, lead-in included, is no
\* longer than the duration cap of sample_rate * 30 samples.
C9_OneUtterance ==
    (/\ Len(h_kinds) >= 2
     /\ GapsShort
     /\ RLen(h_lead) + RLen(h_since) <= max_samples(sample_rate)) =>
        /\ in_speech
        /\ ~h_left
        /\ h_emits = 0
        /\ speech_buffer = RCat(h_lead, h_since)

C9_Witness ==
    /\ Len(h_kinds) = 3
    /\ h_kinds[2] = <<FALSE, silence_chunks_needed - 1>>
    /\ h_kinds[1][1] /\ h_kinds[3][1]
    /\ in_speech
    /\ speech_buffer = RCat(h_lead, h_since)

\* C10: when the latest speech frame left the engine in Speech, the engine
\* is still in Speech after k consecutive non-speech frames exactly when
\* k < silence_chunks_needed: the 40th ends the utterance, the 39th does
\* not.
C10_ClosesAtFortieth ==
    h_gap_in_speech =>
        (in_speech <=> TrailingSilence < silence_chunks_needed)

C10_Witness ==
    /\ h_gap_in_speech
    /\ TrailingSilence = silence_chunks_needed
    /\ ~in_speech

\* C11 (as stated): no emitted segment belongs to an utterance of fewer
\* than min_speech_chunks speech frames, and an utterance of so few speech
\* frames, however it ended, has emitted nothing.
C11_ShortNeverEmitted_AsStated ==
    /\ \A i \in 1..Len(h_segs) : h_segs[i].speech >= min_speech_chunks
    /\ (h_end.via # "none" /\ h_end.speech < min_speech_chunks)
          => h_end.emits = 0

\* C11 (amended): an utterance of fewer than min_speech_chunks speech
\* frames that is closed by silence is never emitted, and its buffer is
\* discarded: right after the closing frame the engine is Idle with an
\* empty speech buffer.  (The duration cap emits whatever the count.)
C11_ShortNeverEmitted ==
    /\ \A i \in 1..Len(h_segs) :
          h_segs[i].via = "close" => h_segs[i].speech >= min_speech_chunks
    /\ (h_end.via = "close" /\ h_end.speech < min_speech_chunks)
          => h_end.emits = 0
    /\ (h_end.via = "close" /\ h_end.at = nframes)
          => (~in_speech /\ speech_buffer = <<>>)

C11_Witness ==
    /\ h_end.via = "close"
    /\ h_end.speech = min_speech_chunks - 1
    /\ h_end.at = nframes
    /\ h_end.emits = 0
    /\ emitted = <<>>
    /\ speech_buffer = <<>>

\* C12: every emitted segment begins with its lead-in, and that lead-in is
\* the last min(pre_speech_samples, available) samples fed before the
\* first speech frame of its utterance.
C12_LeadInPrecedesOnset ==
    \A i \in 1..Len(h_segs) :
        /\ RTake(h_segs[i].pcm, RLen(h_segs[i].lead)) = h_segs[i].lead
        /\ h_segs[i].lead = h_segs[i].before

\* C13: no emitted segment holds more samples than the duration cap of
\* sample_rate * 30.
C13_SegmentsWithinCap ==
    \A i \in 1..Len(emitted) :
        RLen(emitted[i].samples) <= max_samples(emitted[i].sample_rate)

\* the tail of silence the claim gives a silence-closed segment
RetainedTail(rate) ==
    LET whole == silence_chunks_needed * hop_size
        kept == (rate * 15) \div 100
    IN  IF whole <= kept THEN whole ELSE kept

\* a segment closed by silence has lead-in + span * hop_size + retained
\* tail samples
CloseLengths ==
    \A i \in 1..Len(h_segs) :
        h_segs[i].via = "close" =>
            RLen(emitted[i].samples) =
                RLen(h_segs[i].lead) + h_segs[i].span * hop_size
                  + RetainedTail(emitted[i].sample_rate)

\* the example has been fed and processed to its last frame
ExampleDone ==
    /\ h_stream = ExampleFed(Len(ExampleInput))
    /\ nframes = 50 + 20 + 45

\* C14 (as stated): every utterance closed by silence has emitted exactly
\* one segment, of lead-in + (frames from the onset to the last speech
\* frame) * hop_size + retained tail samples.
C14_CloseEmitsOne_AsStated ==
    /\ CloseLengths
    /\ (h_end.via = "close" /\ h_end.at = nframes) => h_emits = 1

\* C14 (amended): the same for an utterance of at least min_speech_chunks
\* speech frames; and the example (50 silent, 20 speech, 45 silent frames),
\* when its utterance is closed by silence, yields exactly one segment of
\* pre_speech_samples + 20 * hop_size + sample_rate * 15 / 100 samples.
C14_CloseEmitsOne ==
    /\ CloseLengths
    /\ (/\ h_end.via = "close"
        /\ h_end.at = nframes
        /\ h_end.speech >= min_speech_chunks) => h_emits = 1
    /\ (ExampleDone /\ h_end.via = "close") =>
          /\ Len(emitted) = 1
          /\ RLen(emitted[1].samples) =
                pre_speech_samples + 20 * hop_size
                  + (sample_rate * 15) \div 100

C14_Witness ==
    /\ ExampleDone
    /\ h_end = [via |-> "close", speech |-> 20, emits |-> 1, at |-> 110]
    /\ Len(emitted) = 1
    /\ emitted[1].samples = <<<<0, 10240>>, <<655, 20480>>, <<0, 1200>>>>

\* C15: the pre-speech buffer never holds more than pre_speech_samples
\* samples, and it is the most recent pre_speech_samples (or all, if fewer)
\* of the samples processed in Idle, in their order.
C15_PreSpeechWindow ==
    /\ RLen(pre_speech_buffer) <= pre_speech_samples
    /\ pre_speech_buffer = RLast(h_idle, pre_speech_samples)

C15_Witness ==
    /\ ~in_speech
    /\ RLen(h_idle) > pre_speech_samples + hop_size
    /\ Len(h_idle) >= 2
    /\ Len(pre_speech_buffer) >= 2
    /\ RLen(pre_speech_buffer) = pre_speech_samples

\* C16: every call of the encoder was given at least one sample and
\* succeeded, so every segment the engine produced was emitted.
C16_EncoderNeverEmpty ==
    /\ h_enc.errs = 0
    /\ h_enc.calls = Len(emitted)
    /\ \A i \in 1..Len(h_segs) : RLen(h_segs[i].pcm) >= 1

C16_Witness ==
    /\ \E i \in 1..Len(h_segs) : h_segs[i].via = "close"
    /\ \E i \in 1..Len(h_segs) : h_segs[i].via = "cap"
    /\ h_enc = [calls |-> 2, errs |-> 0]

\* C17: an utterance whose first speech frame is the frame right after a
\* forced emission has an empty lead-in.
C17_EmptyLeadInAfterCap ==
    h_on.after_cap => h_lead = <<>>

\* the engine's state and all its output, had the whole stream been given
\* to one call of feed
OneCall == FeedOnce(VadRecord(sample_rate, <<>>), h_stream)

\* C19: whenever a call of feed has returned, the segments emitted by the
\* calls so far and the engine's state are those of one call given the
\* concatenation of their slices, and the carry buffer is what is left of
\* the stream past its last whole frame: fewer than hop_size samples.
C19_SplitIndependent ==
    RLen(buffer) < hop_size =>
        /\ OneCall = [buffer |-> buffer,
                      pre_speech_buffer |-> pre_speech_buffer,
                      speech_buffer |-> speech_buffer,
                      in_speech |-> in_speech,
                      silence_count |-> silence_count,
                      speech_count |-> speech_count,
                      out |-> emitted]
        /\ buffer = RLast(h_stream, RLen(h_stream) % hop_size)

C19_Witness ==
    /\ nfeeds = MaxFeeds
    /\ RLen(buffer) = hop_size \div 2
    /\ Len(h_stream) >= 3
    /\ emitted # <<>>
    /\ emitted = OneCall.out

\* C20: an Idle engine has an empty speech buffer and both counters at
\* zero; an engine in Speech has counted at least one speech frame and
\* fewer than silence_chunks_needed silent ones.
C20_StateInvariant ==
    IF in_speech
      THEN speech_count >= 1 /\ silence_count < silence_chunks_needed
      ELSE speech_buffer = <<>> /\ silence_count = 0 /\ speech_count = 0

C20_Witness ==
    /\ h_end.via = "cap"
    /\ h_end.at = nframes
    /\ Len(emitted) >= 1
    /\ ~in_speech
    /\ speech_buffer = <<>> /\ silence_count = 0 /\ speech_count = 0

\* ------------------------------------------------------------------------
\* Claims about the callback
\* ------------------------------------------------------------------------

\* C18: once a stop_mic_capture call has returned, no callback of a session
\* it stopped (one whose start had returned Ok before the stop began) feeds
\* the engine or emits, whatever the interleaving of callers, workers and
\* callbacks.
C18_NoFeedAfterStop ==
    [][\A w \in Workers : cb_fed'[w] > cb_fed[w] => w \notin h_stopped]_vars

====
